---- MODULE Spec2Model ----
(***************************************************************************)
(* MappingDockerClient (dockermap/map/client.py): the action-list          *)
(* executor, the per-map image-tag cache and the facade operations, as a   *)
(* state machine over one orchestrator instance and its engine clients.    *)
(*                                                                         *)
(* Python strings are sequences of tokens, a token being a substring that  *)
(* holds no ':' (or the single character ':'), so that str.partition(':')  *)
(* and ':'.join are computed as the code computes them.  A dict is a       *)
(* function whose domain is its key set.                                   *)
(***************************************************************************)
EXTENDS Integers, Sequences, FiniteSets, TLC

VARIABLES
    default_map,    \* self._default_map (None or a map name)
    image_tags,     \* self._image_tags: a dict, map name -> tag set
    engine_tags,    \* per engine client: the image tags the engine lists
    actions,        \* run_action_list: the action list (kwargs are shared objects)
    apply_kwargs,   \* run_action_list: [given, kw], given = FALSE for None
    raise_on_error, \* run_action_list: the flag
    idx,            \* run_action_list: the position of the generator's for loop
    pc,             \* "idle", "policy", "running", "done" (returned), "raised"
    err,            \* the exception that ended the operation, "" for none
    results,        \* the values the generator has yielded
    calls,          \* the engine calls of the current operation, in order
    logs,           \* the push_log messages of the current operation, in order
    op,             \* the operation in progress or last ended, with its arguments
    last_query,     \* per client: the listing its latest get_image_tags call returned
    policy_built,   \* how many times a policy has been constructed (self._policy is None at 0)
    policy_status   \* self._policy.status: container name -> status value

vars == <<default_map, image_tags, engine_tags, actions, apply_kwargs, raise_on_error, idx, pc, err, results, calls, logs, op, last_query, policy_built, policy_status>>

----------------------------------------------------------------------------
(* Bounds of the model.                                                    *)

\* the longest action list handed to run_action_list
MaxActions == 2
\* the largest number of image references handed to one _ensure_images call
MaxImages == 2
\* the largest number of engine calls of one operation step that raise
MaxFaults == 2
\* the largest number of containers one engine lists in a status extraction
MaxListed == 2

----------------------------------------------------------------------------
(* Python values.                                                          *)

\* None where a name is expected (a map name, the default map)
None == "None"
EmptyDict == [k \in {} |-> <<>>]
\* d[key] = value
DictSet(d, key, value) == [k \in (DOMAIN d) \cup {key} |-> IF k = key THEN value ELSE d[k]]

\* dict.update on a copy: the keys of b win
DictUpdate(a, b) == [k \in (DOMAIN a) \cup (DOMAIN b) |-> IF k \in DOMAIN b THEN b[k] ELSE a[k]]
\* the dict left by dict.pop(key)
DictWithout(d, key) == [k \in (DOMAIN d) \ {key} |-> d[k]]

\* the index of the first ':' of s, 0 when s holds none
FirstColon(s) == IF \E i \in 1..Len(s) : s[i] = ":" THEN CHOOSE i \in 1..Len(s) : s[i] = ":" /\ \A j \in 1..(i - 1) : s[j] # ":" ELSE 0
\* str.partition(':'): <<head, separator, tail>>
Partition(s) == IF FirstColon(s) = 0 THEN <<s, <<>>, <<>>>> ELSE <<SubSeq(s, 1, FirstColon(s) - 1), <<":">>, SubSeq(s, FirstColon(s) + 1, Len(s))>>
\* ':'.join((a, b))
JoinColon(a, b) == a \o <<":">> \o b
Latest == <<"latest">>
\* the fully qualified reference of an image reference: name:tag, the tag
\* being latest when the reference holds no ':'
Qualify(image) == IF FirstColon(image) = 0 THEN JoinColon(image, Latest) ELSE image

----------------------------------------------------------------------------
(* The registry: self._maps, map name -> MapClient(container_map, client). *)

MapNames == {"m1", "m2"}
ClientOf(map_name) == IF map_name = "m1" THEN "cl1" ELSE "cl2"
Clients == {ClientOf(m) : m \in MapNames}

----------------------------------------------------------------------------
(* The engine client (DockerClientWrapper).  A context c threads the state *)
(* one operation step reads and writes through its calls:                  *)
(*   c.image_tags, c.engine_tags, c.last_query, c.calls, c.logs,           *)
(*   c.policy_built, c.policy_status                                       *)
(*   c.err     the exception raised so far, "" for none                    *)
(*   c.code    the status code of the engine errors of this step           *)
(*   c.faults  which engine calls of this step raise, counted from c.base  *)
(*   c.act     the index of the action the calls are made for (0: none)    *)
(*   c.exit    the exit code the engine reports for a container waited on  *)
(*   c.ret     the value the last function returned                        *)
(*   c.stored  the action's stored kwargs object as the step leaves it     *)
(*   c.yielded whether the step yields c.ret                               *)

StatusCodes == {"404", "500"}
\* the exit codes client.wait may return
ExitCodes == {"0", "1"}

\* the fault sets of one step that has at most n engine calls
FaultSets(n) == {F \in SUBSET (1..n) : Cardinality(F) <= MaxFaults}

Context(code, faults, act) == [policy_built |-> policy_built, policy_status |-> policy_status, image_tags |-> image_tags, engine_tags |-> engine_tags, last_query |-> last_query, calls |-> calls, logs |-> logs, err |-> "", code |-> code, faults |-> faults, base |-> Len(calls), act |-> act, exit |-> "0", ret |-> FALSE, stored |-> EmptyDict, yielded |-> FALSE]

\* whether the engine call about to be made raises
Fails(c) == (Len(c.calls) - c.base + 1) \in c.faults

\* one engine call: recorded with its outcome; a failing call raises APIError
EngineCall(c, name, client, target, image, args, force) == [c EXCEPT !.calls = Append(@, [op |-> name, client |-> client, target |-> target, image |-> image, args |-> args, res |-> IF Fails(c) THEN c.code ELSE "ok", out |-> None, act |-> c.act, force |-> force]), !.err = IF Fails(c) THEN "APIError" ELSE @]

\* client.push_log(message, level): local to the client wrapper, never raises
PushLog(c, client, message, level) == [c EXCEPT !.logs = Append(@, [client |-> client, msg |-> message, level |-> level, act |-> c.act])]

\* client.import_image(image, tag): once imported, the engine lists image:tag
ImportImage(c, client, image, tag) ==
    LET d == EngineCall(c, "import_image", client, <<>>, image, [tag |-> tag], FALSE)
    IN  IF d.err # "" THEN d ELSE [d EXCEPT !.engine_tags[client] = @ \cup {JoinColon(image, tag)}]

\* client.get_image_tags(): the engine's tag listing
QueryImageTags(c, client, force) ==
    LET d == EngineCall(c, "get_image_tags", client, <<>>, <<>>, EmptyDict, force)
    IN  IF d.err # "" THEN d ELSE [d EXCEPT !.ret = d.engine_tags[client], !.last_query = DictSet(@, client, d.engine_tags[client])]

----------------------------------------------------------------------------
(* The image cache.                                                        *)

\* self._maps.get(map_name), raising ValueError for an unknown name
_get_client(c, map_name) ==
    IF map_name \notin MapNames THEN [c EXCEPT !.err = "ValueError: No map found"] ELSE [c EXCEPT !.ret = ClientOf(map_name)]

\* a mutant of _get_image_tags: a cached entry is returned even with force
_get_image_tags_IgnoresForce(c, map_name, force) ==
    LET hit == map_name \in DOMAIN c.image_tags
        c1 == _get_client(c, map_name)
        c2 == QueryImageTags(c1, c1.ret, force)
    IN  IF hit THEN [c EXCEPT !.ret = c.image_tags[map_name]]
        ELSE IF c1.err # "" THEN c1
        ELSE IF c2.err # "" THEN c2
        ELSE [c2 EXCEPT !.image_tags = DictSet(@, map_name, c2.ret)]

\* c.ret is the tag set returned
_get_image_tags(c, map_name, force) ==
    LET hit == ~force /\ map_name \in DOMAIN c.image_tags
        c1 == _get_client(c, map_name)
        c2 == QueryImageTags(c1, c1.ret, force)
    IN  IF hit THEN [c EXCEPT !.ret = c.image_tags[map_name]]
        ELSE IF c1.err # "" THEN c1
        ELSE IF c2.err # "" THEN c2
        ELSE [c2 EXCEPT !.image_tags = DictSet(@, map_name, c2.ret)]

\* the name _check_image looks up in the cached tags
FullName(image) ==
    LET image_name == Partition(image)[1]
        tag == Partition(image)[3]
    IN  IF tag # <<>> THEN image_name ELSE JoinColon(image_name, Latest)

\* a mutant of _check_image: the engine is queried again after every import
_check_image_RefreshEach(c, map_client, map_images, image) ==
    LET image_name == Partition(image)[1]
        tag == Partition(image)[3]
        d == ImportImage(c, map_client, image_name, IF tag # <<>> THEN tag ELSE Latest)
    IN  IF FullName(image) \notin map_images
        THEN IF d.err # "" THEN d ELSE [QueryImageTags(d, map_client, TRUE) EXCEPT !.ret = TRUE]
        ELSE [c EXCEPT !.ret = FALSE]

\* _check_image: c.ret is TRUE when the image was imported
_check_image(c, map_client, map_images, image) ==
    LET image_name == Partition(image)[1]
        tag == Partition(image)[3]
    IN  IF FullName(image) \notin map_images
        THEN [ImportImage(c, map_client, image_name, IF tag # <<>> THEN tag ELSE Latest) EXCEPT !.ret = TRUE]
        ELSE [c EXCEPT !.ret = FALSE]

\* new_images = [_check_image(image) for image in images], from the i-th on;
\* c.ret is any(new_images)
RECURSIVE CheckImages(_, _, _, _, _, _)
CheckImages(c, map_client, map_images, images, i, any) ==
    IF i > Len(images) THEN [c EXCEPT !.ret = any]
    ELSE LET d == _check_image(c, map_client, map_images, images[i])
         IN  IF d.err # "" THEN d ELSE CheckImages(d, map_client, map_images, images, i + 1, any \/ d.ret)

_ensure_images(c, map_name, images) ==
    LET c1 == _get_client(c, map_name)
        c2 == _get_image_tags(c1, map_name, FALSE)
        c3 == CheckImages(c2, c1.ret, c2.ret, images, 1, FALSE)
    IN  IF c1.err # "" THEN c1
        ELSE IF c2.err # "" THEN c2
        ELSE IF c3.err # "" THEN c3
        ELSE IF c3.ret THEN _get_image_tags(c3, map_name, TRUE)
        ELSE c3

\* refresh_names: self._image_tags = {}
refresh_names(c) == [c EXCEPT !.image_tags = EmptyDict]

----------------------------------------------------------------------------
(* The permission fixer.                                                   *)

\* shortcuts.get_user_group: user[:group], the group defaulting to the user
get_user_group(user) == IF FirstColon(user) = 0 THEN JoinColon(user, user) ELSE user

\* the Id the engine gives a container created without a name
NewId(c) == <<"tmp", ToString(Len(c.calls) + 1)>>

\* the try block of _run_and_dispose: start, wait, push_container_logs
DisposableBody(c, client, tmp_container, volumes_from) ==
    LET c1 == EngineCall(c, "start", client, tmp_container, <<>>, [volumes_from |-> volumes_from], FALSE)
        c2 == EngineCall(c1, "wait", client, tmp_container, <<>>, EmptyDict, FALSE)
        c3 == EngineCall(c2, "push_container_logs", client, tmp_container, <<>>, EmptyDict, FALSE)
    IN  IF c1.err # "" THEN c1 ELSE IF c2.err # "" THEN c2 ELSE c3

\* a mutant of _run_and_dispose: the removal is skipped when the body raised
_run_and_dispose_NoFinally(c, client, image, entrypoint, command, user, volumes_from) ==
    LET tmp_container == NewId(c)
        c1 == EngineCall(c, "create_container", client, tmp_container, image, [entrypoint |-> entrypoint, command |-> command, user |-> user], FALSE)
        c2 == DisposableBody(c1, client, tmp_container, volumes_from)
    IN  IF c1.err # "" THEN c1
        ELSE IF c2.err # "" THEN c2
        ELSE EngineCall(c2, "remove_container", client, tmp_container, <<>>, EmptyDict, FALSE)

_run_and_dispose(c, client, image, entrypoint, command, user, volumes_from) ==
    LET tmp_container == NewId(c)
        c1 == EngineCall(c, "create_container", client, tmp_container, image, [entrypoint |-> entrypoint, command |-> command, user |-> user], FALSE)
        c2 == DisposableBody(c1, client, tmp_container, volumes_from)
        \* finally: the removal runs whether or not the body raised
        c3 == EngineCall([c2 EXCEPT !.err = ""], "remove_container", client, tmp_container, <<>>, EmptyDict, FALSE)
    IN  IF c1.err # "" THEN c1
        ELSE IF c3.err # "" THEN c3
        ELSE [c3 EXCEPT !.err = c2.err]

\* a mutant of _adjust_permissions: chmod runs before chown
_adjust_permissions_ChmodFirst(c, client, image, container_name, path, user, permissions) ==
    LET c1 == PushLog(c, client, <<"Adjusting permissions for container">> \o container_name \o permissions, "INFO")
        c2 == IF permissions # <<>> THEN _run_and_dispose(c1, client, image, <<"None">>, <<"chmod", "-R">> \o permissions \o path, <<"root">>, container_name) ELSE c
        c3 == PushLog(c2, client, <<"Adjusting user for container">> \o container_name \o user, "INFO")
    IN  IF user = <<>> /\ permissions = <<>> THEN c
        ELSE IF c2.err # "" THEN c2
        ELSE IF user # <<>> THEN _run_and_dispose(c3, client, image, <<"None">>, <<"chown", "-R">> \o get_user_group(user) \o path, <<"root">>, container_name)
        ELSE c2

_adjust_permissions(c, client, image, container_name, path, user, permissions) ==
    LET c1 == PushLog(c, client, <<"Adjusting user for container">> \o container_name \o user, "INFO")
        c2 == IF user # <<>> THEN _run_and_dispose(c1, client, image, <<"None">>, <<"chown", "-R">> \o get_user_group(user) \o path, <<"root">>, container_name) ELSE c
        c3 == PushLog(c2, client, <<"Adjusting permissions for container">> \o container_name \o permissions, "INFO")
    IN  IF user = <<>> /\ permissions = <<>> THEN c
        ELSE IF c2.err # "" THEN c2
        ELSE IF permissions # <<>> THEN _run_and_dispose(c3, client, image, <<"None">>, <<"chmod", "-R">> \o permissions \o path, <<"root">>, container_name)
        ELSE c2

----------------------------------------------------------------------------
(* The action executor: run_action_list.                                   *)

\* policy.ACTION_* and policy.ACTIONS_*
ACTION_CREATE == "create"
ACTION_START == "start"
ACTION_PREPARE == "prepare"
ACTION_STOP == "stop"
ACTION_REMOVE == "remove"
ACTIONS_CREATE == {ACTION_CREATE}
ACTIONS_START == {ACTION_START}
ACTIONS_PREPARE == {ACTION_PREPARE}
ACTIONS_STOP == {ACTION_STOP}
ACTIONS_REMOVE == {ACTION_REMOVE}

\* whether c_kwargs = apply_kwargs.get(action) is a non-empty dict
HasOverride(ak, action) == action \in DOMAIN ak.kw /\ DOMAIN ak.kw[action] # {}

\* a mutant of MergedKwargs: the action's own keys win over the override's
MergedKwargs_BaseWins(ak, action, kwargs) == IF HasOverride(ak, action) THEN DictUpdate(ak.kw[action], kwargs) ELSE kwargs

\* a_kwargs: a copy updated with the override, or the action's own kwargs
MergedKwargs(ak, action, kwargs) == IF HasOverride(ak, action) THEN DictUpdate(kwargs, ak.kw[action]) ELSE kwargs

\* whether a_kwargs is the action's stored kwargs object itself (kwargs or {})
SharesKwargs(ak, action, kwargs) == ~HasOverride(ak, action) /\ DOMAIN kwargs # {}

\* image = a_kwargs.pop('image'): KeyError without the key; the pop is seen in
\* the stored kwargs when a_kwargs is that object
PopImage(c, ak, a) ==
    IF "image" \notin DOMAIN MergedKwargs(ak, a.action, a.kwargs) THEN [c EXCEPT !.err = "KeyError"]
    ELSE [c EXCEPT !.ret = MergedKwargs(ak, a.action, a.kwargs)["image"],
                   !.stored = IF SharesKwargs(ak, a.action, a.kwargs) THEN DictWithout(a.kwargs, "image") ELSE a.kwargs]

\* what client.create_container returns for a named container
CreateResult(container) == <<"Id">> \o container

RunCreate(c, client, ak, a) ==
    LET c1 == PopImage(c, ak, a)
        a_kwargs == DictWithout(MergedKwargs(ak, a.action, a.kwargs), "image")
        c2 == _ensure_images(c1, a.map_name, <<c1.ret>>)
        c3 == EngineCall(c2, "create_container", client, a.container, c1.ret, a_kwargs, FALSE)
    IN  IF c1.err # "" THEN c1
        ELSE IF c2.err # "" THEN c2
        ELSE IF c3.err # "" THEN c3
        ELSE [c3 EXCEPT !.ret = CreateResult(a.container), !.yielded = TRUE]

\* a mutant of RunStart: a failing start is tolerated as a failing stop is
RunStart_Tolerant(c, client, ak, a) ==
    LET d == EngineCall(c, "start", client, a.container, <<>>, MergedKwargs(ak, a.action, a.kwargs), FALSE)
    IN  [d EXCEPT !.err = ""]

RunStart(c, client, ak, a) ==
    EngineCall(c, "start", client, a.container, <<>>, MergedKwargs(ak, a.action, a.kwargs), FALSE)

\* client.wait(container): returns the exit code of the container
WaitContainer(c, client, container) ==
    LET d == EngineCall(c, "wait", client, container, <<>>, EmptyDict, FALSE)
    IN  IF d.err # "" THEN d ELSE [d EXCEPT !.calls[Len(d.calls)].out = c.exit, !.ret = c.exit]

\* a mutant of RunPrepare: the permission step is skipped when the container
\* exited with a code other than 0
RunPrepare_ChecksExit(c, client, ak, a) ==
    LET c1 == PopImage(c, ak, a)
        a_kwargs == DictWithout(MergedKwargs(ak, a.action, a.kwargs), "image")
        c2 == WaitContainer(c1, client, a.container)
    IN  IF c1.err # "" THEN c1
        ELSE IF c2.err # "" THEN c2
        ELSE IF c2.ret # "0" THEN c2
        ELSE IF DOMAIN a_kwargs # {"path", "user", "permissions"} THEN [c2 EXCEPT !.err = "TypeError"]
        ELSE _adjust_permissions(c2, client, c1.ret, a.container, a_kwargs["path"], a_kwargs["user"], a_kwargs["permissions"])

\* the value client.wait returns is dropped
RunPrepare(c, client, ak, a) ==
    LET c1 == PopImage(c, ak, a)
        a_kwargs == DictWithout(MergedKwargs(ak, a.action, a.kwargs), "image")
        c2 == WaitContainer(c1, client, a.container)
    IN  IF c1.err # "" THEN c1
        ELSE IF c2.err # "" THEN c2
        ELSE IF DOMAIN a_kwargs # {"path", "user", "permissions"} THEN [c2 EXCEPT !.err = "TypeError"]
        ELSE _adjust_permissions(c2, client, c1.ret, a.container, a_kwargs["path"], a_kwargs["user"], a_kwargs["permissions"])

\* a mutant of TolerateError: 404 is handled as any other status
TolerateError_NoNotFound(c, client, roe, message) ==
    IF c.err = "" THEN c
    ELSE [PushLog(c, client, message, "ERROR") EXCEPT !.err = IF roe THEN c.err ELSE ""]

\* a mutant of TolerateError: the error is logged and raised whatever the flag
TolerateError_AlwaysRaises(c, client, roe, message) ==
    IF c.err = "" THEN c
    ELSE IF c.calls[Len(c.calls)].res = "404" THEN [c EXCEPT !.err = ""]
    ELSE PushLog(c, client, message, "ERROR")

\* except APIError as e: 404 is swallowed; anything else is logged and raised
\* again only with raise_on_error
TolerateError(c, client, roe, message) ==
    IF c.err = "" THEN c
    ELSE IF c.calls[Len(c.calls)].res = "404" THEN [c EXCEPT !.err = ""]
    ELSE [PushLog(c, client, message, "ERROR") EXCEPT !.err = IF roe THEN c.err ELSE ""]

RunStop(c, client, ak, roe, a) ==
    TolerateError(EngineCall(c, "stop", client, a.container, <<>>, MergedKwargs(ak, a.action, a.kwargs), FALSE), client, roe, <<"Failed to stop container">> \o a.container)

\* a mutant of RunRemove: the outcome of the removal is yielded
RunRemove_Yields(c, client, ak, roe, a) ==
    LET d == TolerateError(EngineCall(c, "remove_container", client, a.container, <<>>, MergedKwargs(ak, a.action, a.kwargs), FALSE), client, roe, <<"Failed to remove container">> \o a.container)
    IN  [d EXCEPT !.ret = <<"removed">>, !.yielded = TRUE]

RunRemove(c, client, ak, roe, a) ==
    TolerateError(EngineCall(c, "remove_container", client, a.container, <<>>, MergedKwargs(ak, a.action, a.kwargs), FALSE), client, roe, <<"Failed to remove container">> \o a.container)

\* a mutant of Dispatch: start actions are filtered out of the run
Dispatch_SkipsStart(c, client, ak, roe, a) ==
    IF a.action \in ACTIONS_CREATE THEN RunCreate(c, client, ak, a)
    ELSE IF a.action \in ACTIONS_START THEN c
    ELSE IF a.action \in ACTIONS_PREPARE THEN RunPrepare(c, client, ak, a)
    ELSE IF a.action \in ACTIONS_STOP THEN RunStop(c, client, ak, roe, a)
    ELSE IF a.action \in ACTIONS_REMOVE THEN RunRemove(c, client, ak, roe, a)
    ELSE [c EXCEPT !.err = "ValueError: Unrecognized action"]

\* a mutant of Dispatch: an action of an unknown kind is skipped
Dispatch_IgnoresUnknown(c, client, ak, roe, a) ==
    IF a.action \in ACTIONS_CREATE THEN RunCreate(c, client, ak, a)
    ELSE IF a.action \in ACTIONS_START THEN RunStart(c, client, ak, a)
    ELSE IF a.action \in ACTIONS_PREPARE THEN RunPrepare(c, client, ak, a)
    ELSE IF a.action \in ACTIONS_STOP THEN RunStop(c, client, ak, roe, a)
    ELSE IF a.action \in ACTIONS_REMOVE THEN RunRemove(c, client, ak, roe, a)
    ELSE c

\* the if/elif chain over the action kind
Dispatch(c, client, ak, roe, a) ==
    IF a.action \in ACTIONS_CREATE THEN RunCreate(c, client, ak, a)
    ELSE IF a.action \in ACTIONS_START THEN RunStart(c, client, ak, a)
    ELSE IF a.action \in ACTIONS_PREPARE THEN RunPrepare(c, client, ak, a)
    ELSE IF a.action \in ACTIONS_STOP THEN RunStop(c, client, ak, roe, a)
    ELSE IF a.action \in ACTIONS_REMOVE THEN RunRemove(c, client, ak, roe, a)
    ELSE [c EXCEPT !.err = "ValueError: Unrecognized action"]

\* one pass of the for loop of run_action_list, for action a
Iteration(c, ak, roe, a) ==
    LET c0 == [c EXCEPT !.stored = a.kwargs]
        c1 == _get_client(c0, a.map_name)
    IN  IF c1.err # "" THEN c1
        ELSE IF ~ak.given THEN [c1 EXCEPT !.err = "AttributeError"]
        ELSE Dispatch(c1, c1.ret, ak, roe, a)

----------------------------------------------------------------------------
(* The status extractor and the policy.  A status string is a sequence of  *)
(* characters; a status value is False, True, an int or None.              *)

StatusFalse == [kind |-> "False", code |-> 0]
StatusTrue == [kind |-> "True", code |-> 0]
StatusNone == [kind |-> "None", code |-> 0]
StatusInt(n) == [kind |-> "int", code |-> n]

Digits == <<"0", "1", "2", "3", "4", "5", "6", "7", "8", "9">>
IsDigit(ch) == \E d \in 1..Len(Digits) : Digits[d] = ch
DigitValue(ch) == (CHOOSE d \in 1..Len(Digits) : Digits[d] = ch) - 1

\* str.startswith
StartsWith(str, prefix) == Len(str) >= Len(prefix) /\ SubSeq(str, 1, Len(prefix)) = prefix

\* the index of the last character of the longest run of digits from index i on
RECURSIVE DigitsEnd(_, _)
DigitsEnd(str, i) == IF i <= Len(str) /\ IsDigit(str[i]) THEN DigitsEnd(str, i + 1) ELSE i - 1

\* int() of a string of digits
RECURSIVE ToInt(_)
ToInt(digits) == IF digits = <<>> THEN 0 ELSE 10 * ToInt(SubSeq(digits, 1, Len(digits) - 1)) + DigitValue(digits[Len(digits)])

\* EXITED_REGEX = 'Exited \((\d+)\)', matched at the start of the string:
\* the group, or <<>> for no match
ExitedPrefix == <<"E", "x", "i", "t", "e", "d", " ", "(">>
ExitedGroup(str) ==
    LET from == Len(ExitedPrefix) + 1
        to == DigitsEnd(str, from)
    IN  IF StartsWith(str, ExitedPrefix) /\ to >= from /\ to < Len(str) /\ str[to + 1] = ")" THEN SubSeq(str, from, to) ELSE <<>>

\* a mutant of Classify: only the exact string 'Up' counts as running
Classify_UpExact(c_status) ==
    IF c_status = <<>> THEN StatusFalse
    ELSE IF c_status = <<"U", "p">> THEN StatusTrue
    ELSE IF ExitedGroup(c_status) # <<>> THEN StatusInt(ToInt(ExitedGroup(c_status)))
    ELSE StatusNone

\* the classification of a status string in _extract_status
Classify(c_status) ==
    IF c_status = <<>> THEN StatusFalse
    ELSE IF StartsWith(c_status, <<"U", "p">>) THEN StatusTrue
    ELSE IF ExitedGroup(c_status) # <<>> THEN StatusInt(ToInt(ExitedGroup(c_status)))
    ELSE StatusNone

\* for name in container['Names']: yield name[1:], cs -- into the dict d
RECURSIVE ExtractNames(_, _, _)
ExtractNames(d, names, cs) == IF names = <<>> THEN d ELSE ExtractNames(DictSet(d, Tail(names[1]), cs), Tail(names), cs)

\* for container in map_containers
RECURSIVE ExtractContainers(_, _)
ExtractContainers(d, map_containers) ==
    IF map_containers = <<>> THEN d
    ELSE ExtractContainers(ExtractNames(d, map_containers[1].Names, Classify(map_containers[1].Status)), Tail(map_containers))

\* the order in which self._maps.values() is walked
MapOrder == <<"m1", "m2">>

\* _get_status from the i-th map on, the engines answering containers(all=True)
\* with listing; c.ret is the dict
RECURSIVE ExtractStatus(_, _, _, _)
ExtractStatus(c, listing, i, d) ==
    IF i > Len(MapOrder) THEN [c EXCEPT !.ret = d]
    ELSE LET c1 == EngineCall(c, "containers", ClientOf(MapOrder[i]), <<>>, <<>>, [all |-> <<"True">>], FALSE)
         IN  IF c1.err # "" THEN c1 ELSE ExtractStatus(c1, listing, i + 1, ExtractContainers(d, listing[ClientOf(MapOrder[i])]))

_get_status(c, listing) == ExtractStatus(c, listing, 1, EmptyDict)

\* a mutant of get_policy: the fresh mapping is merged into the status the
\* policy already has
get_policy_Merges(c, listing) ==
    LET c1 == IF c.policy_built = 0 THEN [c EXCEPT !.policy_built = 1] ELSE c
        c2 == _get_status(c1, listing)
    IN  IF c2.err # "" THEN c2 ELSE [c2 EXCEPT !.policy_status = DictUpdate(@, c2.ret)]

\* get_policy: the policy is constructed when there is none; its status is set
\* to what _get_status returns
get_policy(c, listing) ==
    LET c1 == IF c.policy_built = 0 THEN [c EXCEPT !.policy_built = 1] ELSE c
        c2 == _get_status(c1, listing)
    IN  IF c2.err # "" THEN c2 ELSE [c2 EXCEPT !.policy_status = c2.ret]

\* policy_class.cname: the engine-facing name of a container instance
cname(map_name, container, instance) == IF instance = None THEN <<map_name, ".", container>> ELSE <<map_name, ".", container, ".", instance>>

\* the kwargs the policy gives an action of a kind
PolicyKwargs(action) == IF action = ACTION_CREATE THEN [image |-> <<"a">>] ELSE IF action \in {ACTION_STOP, ACTION_REMOVE} THEN [timeout |-> <<"x">>] ELSE EmptyDict

\* policy.create_actions / start_actions / stop_actions / remove_actions: the
\* plan for a container of a map; c2 depends on c1, so that c1 is created and
\* started before c2 and c2 is stopped and removed before c1
PolicyActions(action, map_name, container) ==
    LET one(n) == [action |-> action, map_name |-> map_name, container |-> cname(map_name, n, None), kwargs |-> PolicyKwargs(action)]
    IN  IF action \in {ACTION_CREATE, ACTION_START}
        THEN IF container = "c2" THEN <<one("c1"), one("c2")>> ELSE <<one(container)>>
        ELSE IF container = "c1" THEN <<one("c2"), one("c1")>> ELSE <<one(container)>>

\* map_name or self._default_map
OrDefault(map_name, default) == IF map_name # None THEN map_name ELSE default

\* MappingDockerClient.wait
wait(c, default, container, instance, map_name, log) ==
    LET c1 == _get_client(c, map_name)
        c_name == cname(OrDefault(map_name, default), container, instance)
        c2 == EngineCall(c1, "wait", c1.ret, c_name, <<>>, EmptyDict, FALSE)
    IN  IF c1.err # "" THEN c1
        ELSE IF c2.err # "" \/ ~log THEN c2
        ELSE EngineCall(c2, "push_container_logs", c1.ret, c_name, <<>>, EmptyDict, FALSE)

\* MappingDockerClient.wait_and_remove
wait_and_remove(c, default, container, instance, map_name, log, kwargs) ==
    LET c1 == _get_client(c, map_name)
        c_name == cname(OrDefault(map_name, default), container, instance)
        c2 == wait(c1, default, container, instance, map_name, log)
    IN  IF c1.err # "" THEN c1
        ELSE IF c2.err # "" THEN c2
        ELSE EngineCall(c2, "remove_container", c1.ret, c_name, <<>>, kwargs, FALSE)

\* a mutant of ContainerNames: the persistent mark is not looked at
ContainerNames_IgnoresPersistent(map_name, container, config) ==
    [j \in 1..Len(config.attaches) |-> cname(map_name, config.attaches[j], None)]
    \o (IF config.instances # <<>> THEN [j \in 1..Len(config.instances) |-> cname(map_name, container, config.instances[j])]
        ELSE <<cname(map_name, container, None)>>)

\* the body of 'for container, config in c_map': the names yielded for one
\* container configuration
ContainerNames(map_name, container, config) ==
    [j \in 1..Len(config.attaches) |-> cname(map_name, config.attaches[j], None)]
    \o (IF ~config.persistent THEN <<>>
        ELSE IF config.instances # <<>> THEN [j \in 1..Len(config.instances) |-> cname(map_name, container, config.instances[j])]
        ELSE <<cname(map_name, container, None)>>)

\* for container, config in c_map, from the k-th on
RECURSIVE MapContainerNames(_, _, _)
MapContainerNames(map_name, c_map, k) ==
    IF k > Len(c_map) THEN <<>>
    ELSE ContainerNames(map_name, c_map[k].name, c_map[k].config) \o MapContainerNames(map_name, c_map, k + 1)

\* for c_map, __ in maps, from the i-th on
RECURSIVE AllContainerNames(_, _, _)
AllContainerNames(container_maps, maps, i) ==
    IF i > Len(maps) THEN <<>>
    ELSE MapContainerNames(maps[i], container_maps[maps[i]], 1) \o AllContainerNames(container_maps, maps, i + 1)

\* MappingDockerClient.list_persistent_containers over the container maps of
\* the registry: [err, ret]; self._maps[map_name] raises KeyError
list_persistent_containers(container_maps, map_name) ==
    IF map_name # None /\ map_name \notin MapNames THEN [err |-> "KeyError", ret |-> <<>>]
    ELSE [err |-> "", ret |-> AllContainerNames(container_maps, IF map_name # None THEN <<map_name>> ELSE MapOrder, 1)]

----------------------------------------------------------------------------
(* Inputs.                                                                 *)

Containers == {<<"c1">>, <<"c2">>}
ImgA == <<"a">>
ImgB == <<"b", ":", "t">>
Path == <<"p">>

\* the kwargs the policy gives an action of each kind
CreateKwargs == {PolicyKwargs(ACTION_CREATE)}
PrepareKwargs == {[image |-> ImgA, path |-> Path, user |-> u, permissions |-> p] : u \in {<<>>, <<"u">>}, p \in {<<>>, <<"ux">>}}
OtherKwargs == {PolicyKwargs(ACTION_STOP)}

MakeAction(action, map_name, container, kwargs) == [action |-> action, map_name |-> map_name, container |-> container, kwargs |-> kwargs]

\* the actions a list may hold; the last two are malformed (unknown kind, unknown map)
ActionSet ==
    {MakeAction(ACTION_CREATE, "m1", n, k) : n \in Containers, k \in CreateKwargs}
    \cup {MakeAction(ACTION_START, "m1", n, EmptyDict) : n \in Containers}
    \cup {MakeAction(ACTION_PREPARE, "m1", <<"c1">>, k) : k \in PrepareKwargs}
    \cup {MakeAction(ACTION_STOP, "m1", <<"c1">>, k) : k \in OtherKwargs}
    \cup {MakeAction(ACTION_REMOVE, "m1", <<"c2">>, k) : k \in OtherKwargs}
    \cup {MakeAction("restart", "m1", <<"c1">>, EmptyDict), MakeAction(ACTION_START, "mx", <<"c1">>, EmptyDict)}

RECURSIVE SeqsUpTo(_, _)
SeqsUpTo(S, n) == IF n = 0 THEN {<<>>} ELSE SeqsUpTo(S, n - 1) \cup {Append(q, x) : q \in {r \in SeqsUpTo(S, n - 1) : Len(r) = n - 1}, x \in S}

ActionLists == SeqsUpTo(ActionSet, MaxActions)

\* the override maps: None, {}, an empty override of one kind (as the facade
\* builds it from no keyword arguments), an override of every kind
FullOverride == [k \in {ACTION_CREATE, ACTION_START, ACTION_PREPARE, ACTION_STOP, ACTION_REMOVE} |-> IF k = ACTION_CREATE THEN [image |-> ImgB] ELSE IF k = ACTION_PREPARE THEN [user |-> <<"v">>] ELSE [timeout |-> <<"y">>]]
ApplyKwargsSet == {[given |-> FALSE, kw |-> EmptyDict], [given |-> TRUE, kw |-> EmptyDict], [given |-> TRUE, kw |-> [k \in {ACTION_CREATE} |-> EmptyDict]], [given |-> TRUE, kw |-> FullOverride]}

\* the tag listings an engine starts with
TagSets == {{}, {JoinColon(ImgA, Latest)}}

NoOp == [name |-> "none"]

----------------------------------------------------------------------------
(* The orchestrator after construction with the maps of MapNames; the      *)
(* engines list any of the tag sets.                                       *)

Init ==
    /\ default_map = None
    /\ image_tags = EmptyDict
    /\ engine_tags \in {[cl \in Clients |-> T] : T \in TagSets}
    /\ actions = <<>>
    /\ apply_kwargs = [given |-> TRUE, kw |-> EmptyDict]
    /\ raise_on_error = FALSE
    /\ idx = 1
    /\ pc = "idle"
    /\ err = ""
    /\ results = <<>>
    /\ calls = <<>>
    /\ logs = <<>>
    /\ op = NoOp
    /\ last_query = EmptyDict
    /\ policy_built = 0
    /\ policy_status = EmptyDict

\* the generator of run_action_list(acts, ak, roe) is created and consumed
BeginRun(acts, ak, roe, log) ==
    /\ actions' = acts
    /\ apply_kwargs' = ak
    /\ raise_on_error' = roe
    /\ idx' = 1
    /\ pc' = IF acts = <<>> THEN "done" ELSE "running"
    /\ err' = ""
    /\ results' = <<>>
    /\ calls' = log
    /\ logs' = <<>>

\* a caller runs one of the action lists
StartRunOf(lists) ==
    /\ pc = "idle"
    /\ \E acts \in lists, ak \in ApplyKwargsSet, roe \in BOOLEAN : BeginRun(acts, ak, roe, <<>>)
    /\ op' = [name |-> "run_action_list", actions |-> actions']
    /\ UNCHANGED <<default_map, image_tags, engine_tags, last_query, policy_built, policy_status>>

StartRun == StartRunOf(ActionLists)

\* the number of engine calls the pass for the idx-th action makes when none raises
CallsOfStep == Len(Iteration(Context("500", {}, idx), apply_kwargs, raise_on_error, actions[idx]).calls) - Len(calls)

\* the state after the pass that left context c
StepTo(c) ==
    /\ image_tags' = c.image_tags
    /\ engine_tags' = c.engine_tags
    /\ last_query' = c.last_query
    /\ calls' = c.calls
    /\ logs' = c.logs
    /\ actions' = [actions EXCEPT ![idx].kwargs = c.stored]
    /\ results' = IF c.err = "" /\ c.yielded THEN Append(results, c.ret) ELSE results
    /\ err' = c.err
    /\ idx' = IF c.err = "" THEN idx + 1 ELSE idx
    /\ pc' = IF c.err # "" THEN "raised" ELSE IF idx + 1 > Len(actions) THEN "done" ELSE "running"

\* the number of engine calls the pass for the idx-th action makes when the
\* calls of the fault set raise
CallsReached(faults) == Len(Iteration(Context("500", faults, idx), apply_kwargs, raise_on_error, actions[idx]).calls) - Len(calls)
\* the greatest position of a fault set, 0 for the empty one
LastFault(faults) == IF faults = {} THEN 0 ELSE CHOOSE f \in faults : \A g \in faults : g <= f
\* the fault sets of at most k calls in which every call named is one the pass
\* reaches: the sets of FaultSets(CallsOfStep) that give different passes
RECURSIVE ReachedFaults(_)
ReachedFaults(k) ==
    IF k = 0 THEN {{}}
    ELSE ReachedFaults(k - 1) \cup UNION {{F \cup {f} : f \in (LastFault(F) + 1)..CallsReached(F)} : F \in {G \in ReachedFaults(k - 1) : Cardinality(G) = k - 1}}

\* the for loop of run_action_list takes the next action; the engine answers
\* the calls of the fault set with an error of the status code, and a wait
\* on the action's container with one of the exit codes
RunStepWith(exits) ==
    /\ pc = "running"
    /\ idx <= Len(actions)
    /\ \E faults \in ReachedFaults(MaxFaults) : \E code \in IF faults = {} THEN {"500"} ELSE StatusCodes : \E exit \in exits :
          StepTo(Iteration([Context(code, faults, idx) EXCEPT !.exit = exit], apply_kwargs, raise_on_error, actions[idx]))
    /\ UNCHANGED <<default_map, apply_kwargs, raise_on_error, op, policy_built, policy_status>>

RunStep == RunStepWith({"0"})

Next == StartRun \/ RunStep

Spec == Init /\ [][Next]_vars

----------------------------------------------------------------------------
(* Runs of prepare actions, the containers waited on exiting with any of   *)
(* the exit codes.                                                         *)

PrepareLists == SeqsUpTo({MakeAction(ACTION_PREPARE, "m1", <<"c1">>, k) : k \in PrepareKwargs}, MaxActions)

StartPrepare == StartRunOf(PrepareLists)
PrepareStep == RunStepWith(ExitCodes)

NextPrepare == StartPrepare \/ PrepareStep

SpecPrepare == Init /\ [][NextPrepare]_vars

----------------------------------------------------------------------------
(* The image-cache operations, called one after another on one             *)
(* orchestrator.                                                           *)

\* the image references handed to _ensure_images: untagged and tagged
ImageRefs == {ImgA, ImgB}
ImageLists == SeqsUpTo(ImageRefs, MaxImages)

\* the context of an operation that starts now
FreshContext(code, faults) == [Context(code, faults, 0) EXCEPT !.calls = <<>>, !.logs = <<>>, !.base = 0]

\* the images the import_image calls of a call log imported, in order
RECURSIVE ImportsOf(_)
ImportsOf(log) ==
    IF log = <<>> THEN <<>>
    ELSE IF log[1].op = "import_image" /\ log[1].res = "ok" THEN <<JoinColon(log[1].image, log[1].args.tag)>> \o ImportsOf(Tail(log))
    ELSE ImportsOf(Tail(log))

\* the operation that left context c has returned or raised
EndOp(c, o) ==
    /\ image_tags' = c.image_tags
    /\ engine_tags' = c.engine_tags
    /\ last_query' = c.last_query
    /\ calls' = c.calls
    /\ logs' = c.logs
    /\ err' = c.err
    /\ pc' = IF c.err = "" THEN "done" ELSE "raised"
    /\ op' = o
    /\ UNCHANGED <<default_map, actions, apply_kwargs, raise_on_error, idx, results, policy_built, policy_status>>

GetImageTags ==
    /\ pc \in {"idle", "done", "raised"}
    /\ \E map_name \in MapNames, force \in BOOLEAN, faults \in FaultSets(1) :
          LET c == _get_image_tags(FreshContext("500", faults), map_name, force)
          IN  EndOp(c, [name |-> "get_image_tags", map_name |-> map_name, force |-> force])

EnsureImages ==
    /\ pc \in {"idle", "done", "raised"}
    /\ \E map_name \in MapNames, images \in ImageLists :
          \* the call ends at its first raising engine call: one fault at most
          \E faults \in {f \in FaultSets(Len(_ensure_images(FreshContext("500", {}), map_name, images).calls)) : Cardinality(f) <= 1} :
             LET c == _ensure_images(FreshContext("500", faults), map_name, images)
             IN  EndOp(c, [name |-> "ensure_images", map_name |-> map_name, images |-> images])

RefreshNames ==
    /\ pc \in {"idle", "done", "raised"}
    /\ EndOp(refresh_names(FreshContext("500", {})), [name |-> "refresh_names"])

NextCache == GetImageTags \/ EnsureImages \/ RefreshNames

SpecCache == Init /\ [][NextCache]_vars

----------------------------------------------------------------------------
(* The facade: create, start, stop, remove, wait, wait_and_remove and the  *)
(* default_map setter, called one after another.                           *)

\* the map_name arguments: omitted or registered
MapArgs == {None, "m1", "m2"}
ContainerArgs == {"c2"}
InstanceArgs == {None}
\* the keyword arguments a caller passes to an operation of a kind
CallerKwargs(action) == IF action = ACTION_STOP THEN {EmptyDict, FullOverride[action]} ELSE {EmptyDict}

StatusUp == <<"U", "p", " ", "2", " ", "h">>
StatusExited == <<"E", "x", "i", "t", "e", "d", " ", "(", "1", "3", "7", ")", " ", "a", "g", "o">>
\* what an engine answers containers(all=True) with
Listings == {<<[Names |-> <<<<"/", "m1", ".", "c1">>>>, Status |-> StatusUp]>>, <<[Names |-> <<<<"/", "m1", ".", "c1">>, <<"/", "alias">>>>, Status |-> StatusExited]>>}

ListingArgs == {[cl \in Clients |-> L] : L \in Listings}

\* no operation is in progress
Idle == pc \in {"idle", "done", "raised"}

\* create / start / stop / remove are called: get_policy() comes first
Facade(action, container, map_name, kwargs, roe) ==
    /\ Idle
    /\ op' = [name |-> action, map_name |-> map_name, default |-> default_map, container |-> container, listing |-> <<>>]
    /\ pc' = "policy"
    /\ actions' = <<>>
    /\ apply_kwargs' = [given |-> TRUE, kw |-> [k \in {action} |-> kwargs]]
    /\ raise_on_error' = roe
    /\ idx' = 1
    /\ err' = ""
    /\ results' = <<>>
    /\ calls' = <<>>
    /\ logs' = <<>>
    /\ UNCHANGED <<default_map, image_tags, engine_tags, last_query, policy_built, policy_status>>

Create ==
    \E container \in ContainerArgs, map_name \in MapArgs, kwargs \in CallerKwargs(ACTION_CREATE) : Facade(ACTION_CREATE, container, map_name, kwargs, FALSE)

Start ==
    \E container \in ContainerArgs, map_name \in MapArgs, kwargs \in CallerKwargs(ACTION_START) : Facade(ACTION_START, container, map_name, kwargs, FALSE)

Stop ==
    \E container \in ContainerArgs, map_name \in MapArgs, kwargs \in CallerKwargs(ACTION_STOP), roe \in BOOLEAN : Facade(ACTION_STOP, container, map_name, kwargs, roe)

Remove ==
    \E container \in ContainerArgs, map_name \in MapArgs, kwargs \in CallerKwargs(ACTION_REMOVE), roe \in BOOLEAN : Facade(ACTION_REMOVE, container, map_name, kwargs, roe)

\* get_policy() returns or raises; the policy is asked for the plan of
\* (map_name or default_map, container), and the plan is run with the caller's
\* kwargs as the override of the one kind
PolicyStep ==
    /\ pc = "policy"
    /\ \E listing \in ListingArgs, faults \in FaultSets(Len(MapOrder)) :
          LET c == get_policy(FreshContext("500", faults), listing)
              effective == OrDefault(op.map_name, default_map)
          IN  /\ policy_built' = c.policy_built
              /\ policy_status' = c.policy_status
              /\ IF c.err # "" \/ effective \notin MapNames
                 THEN /\ pc' = "raised"
                      /\ err' = IF c.err # "" THEN c.err ELSE "KeyError"
                      /\ calls' = c.calls
                      /\ UNCHANGED <<actions, apply_kwargs, raise_on_error, idx, results, logs>>
                 ELSE BeginRun(PolicyActions(op.name, effective, op.container), apply_kwargs, raise_on_error, c.calls)
              /\ op' = [op EXCEPT !.listing = listing]
    /\ UNCHANGED <<default_map, image_tags, engine_tags, last_query>>

\* get_policy() called by itself, the engines answering with one of the
\* listings and raising as one of the fault sets says
GetPolicyWith(listings, faultsets) ==
    /\ Idle
    /\ \E listing \in listings, faults \in faultsets :
          LET c == get_policy(FreshContext("500", faults), listing)
          IN  /\ policy_built' = c.policy_built
              /\ policy_status' = c.policy_status
              /\ calls' = c.calls
              /\ err' = c.err
              /\ pc' = IF c.err = "" THEN "done" ELSE "raised"
              /\ op' = [name |-> "get_policy", listing |-> listing]
    /\ logs' = <<>>
    /\ results' = <<>>
    /\ UNCHANGED <<default_map, image_tags, engine_tags, last_query, actions, apply_kwargs, raise_on_error, idx>>

GetPolicy == GetPolicyWith(ListingArgs, FaultSets(Len(MapOrder)))

Wait ==
    /\ Idle
    /\ \E container \in ContainerArgs, instance \in InstanceArgs, map_name \in MapArgs, log \in BOOLEAN, faults \in FaultSets(2) :
          EndOp(wait(FreshContext("500", faults), default_map, container, instance, map_name, log),
                [name |-> "wait", map_name |-> map_name, default |-> default_map, container |-> container, instance |-> instance])

WaitAndRemove ==
    /\ Idle
    /\ \E container \in ContainerArgs, instance \in InstanceArgs, map_name \in MapArgs, log \in {TRUE}, kwargs \in CallerKwargs(ACTION_REMOVE), faults \in FaultSets(3) :
          EndOp(wait_and_remove(FreshContext("500", faults), default_map, container, instance, map_name, log, kwargs),
                [name |-> "wait_and_remove", map_name |-> map_name, default |-> default_map, container |-> container, instance |-> instance])

\* the default_map setter
SetDefaultMap ==
    /\ Idle
    /\ \E value \in MapNames \cup {None} : default_map' = value
    /\ op' = [name |-> "default_map"]
    /\ pc' = "done"
    /\ err' = ""
    /\ calls' = <<>>
    /\ logs' = <<>>
    /\ results' = <<>>
    /\ UNCHANGED <<image_tags, engine_tags, actions, apply_kwargs, raise_on_error, idx, last_query, policy_built, policy_status>>

\* a pass of the run a facade operation has started, the engine answering
\* every call of it
FacadeStep ==
    /\ pc = "running"
    /\ idx <= Len(actions)
    /\ StepTo(Iteration(Context("500", {}, idx), apply_kwargs, raise_on_error, actions[idx]))
    /\ UNCHANGED <<default_map, apply_kwargs, raise_on_error, op, policy_built, policy_status>>

NextFacade == GetPolicy \/ Create \/ Start \/ Stop \/ Remove \/ PolicyStep \/ Wait \/ WaitAndRemove \/ SetDefaultMap \/ FacadeStep

\* the orchestrator after construction, the engines listing the image the
\* policy's create actions name
InitFacade == Init /\ \A cl \in Clients : engine_tags[cl] = {Qualify(PolicyKwargs(ACTION_CREATE).image)}

SpecFacade == InitFacade /\ [][NextFacade]_vars

----------------------------------------------------------------------------
(* The status extractor over the status strings and names an engine may    *)
(* list.                                                                   *)

\* status strings: empty, 'Up', 'Up 2 h', ' Up', 'UP', 'Exited (137) ago',
\* 'Exited (0)', 'Exited (007) x', 'Exited ()', 'Exited (1', 'Exited (1a)',
\* 'Exited 7', 'exited (1)', 'Created'
StatusStrings ==
    {<<>>, <<"U", "p">>, StatusUp, <<" ", "U", "p">>, <<"U", "P">>, StatusExited,
     ExitedPrefix \o <<"0", ")">>, ExitedPrefix \o <<"0", "0", "7", ")", " ", "x">>,
     ExitedPrefix \o <<")">>, ExitedPrefix \o <<"1">>, ExitedPrefix \o <<"1", "a", ")">>,
     <<"E", "x", "i", "t", "e", "d", " ", "7">>, <<"e", "x", "i", "t", "e", "d", " ", "(", "1", ")">>,
     <<"C", "r", "e", "a", "t", "e", "d">>}
\* the Names of a listed container
NameLists == {<<<<"/", "m1", ".", "c1">>>>, <<<<"/", "m1", ".", "c1">>, <<"/", "alias">>>>, <<<<"/", "alias">>>>}
ListedContainers == {[Names |-> n, Status |-> st] : n \in NameLists, st \in StatusStrings}
\* the first engine lists up to MaxListed containers, the second none or one
\* under a name the first may list as well
StatusListings == {[cl \in Clients |-> IF cl = ClientOf(MapOrder[1]) THEN L ELSE M] : L \in SeqsUpTo(ListedContainers, MaxListed), M \in {<<>>, <<[Names |-> <<<<"/", "m1", ".", "c1">>>>, Status |-> <<"U", "p">>]>>}}

\* get_policy() as the first call made on the orchestrator, the engines
\* answering every query
ExtractAny == op = NoOp /\ GetPolicyWith(StatusListings, {{}})

SpecStatus == Init /\ [][ExtractAny]_vars

----------------------------------------------------------------------------
(* list_persistent_containers over the container maps a registry may hold. *)

\* the configuration of a container: attached aliases, the persistent mark,
\* declared instances
ContainerConfigs == {[attaches |-> a, persistent |-> p, instances |-> i] : a \in {<<>>, <<"v1">>, <<"v1", "v2">>}, p \in BOOLEAN, i \in {<<>>, <<"i1">>, <<"i1", "i2">>}}
\* a container map, as iterating it yields it: no, one or two containers
ContainerMaps == {<<>>} \cup {<<[name |-> "c1", config |-> x]>> : x \in ContainerConfigs} \cup {<<[name |-> "c1", config |-> x], [name |-> "c2", config |-> y]>> : x, y \in ContainerConfigs}
\* the container maps of the registry: any for the first map, an empty one or
\* one persistent container for the second
Registries == {[m \in MapNames |-> IF m = MapOrder[1] THEN x ELSE y] : x \in ContainerMaps, y \in {<<>>, <<[name |-> "c1", config |-> [attaches |-> <<>>, persistent |-> TRUE, instances |-> <<>>]]>>}}
\* the map_name arguments: omitted, registered, unknown
ListMapArgs == {None, "m1", "m2", "mx"}

\* list_persistent_containers(map_name) on an orchestrator constructed with
\* the container maps
ListPersistentContainers ==
    /\ op = NoOp
    /\ \E container_maps \in Registries, map_name \in ListMapArgs :
          LET r == list_persistent_containers(container_maps, map_name)
          IN  /\ op' = [name |-> "list_persistent_containers", map_name |-> map_name, maps |-> container_maps]
              /\ results' = r.ret
              /\ err' = r.err
              /\ pc' = IF r.err = "" THEN "done" ELSE "raised"
    /\ calls' = <<>>
    /\ logs' = <<>>
    /\ UNCHANGED <<default_map, image_tags, engine_tags, actions, apply_kwargs, raise_on_error, idx, last_query, policy_built, policy_status>>

SpecList == Init /\ [][ListPersistentContainers]_vars

----------------------------------------------------------------------------
(* Properties of run_action_list.                                          *)

\* the engine call an action of each kind is executed by
PrimaryOp(action) ==
    IF action \in ACTIONS_CREATE THEN "create_container"
    ELSE IF action \in ACTIONS_START THEN "start"
    ELSE IF action \in ACTIONS_PREPARE THEN "wait"
    ELSE IF action \in ACTIONS_STOP THEN "stop"
    ELSE "remove_container"

\* the positions in the call log of the engine calls that execute action i
ExecCalls(i) == {p \in 1..Len(calls) : calls[p].act = i /\ calls[p].op = PrimaryOp(actions[i].action) /\ calls[p].target = actions[i].container /\ calls[p].client = ClientOf(actions[i].map_name)}

\* the calls that raised
Failed(p) == calls[p].res # "ok"

InRun == op.name = "run_action_list"
\* the pass for action i has ended without raising
Passed(i) == i < idx
\* the run raised in the pass for action i
RaisedAt(i) == pc = "raised" /\ idx = i

\* C1: the engine calls are made in the order of the action list (a call made
\* for action i precedes every call made for an action j > i), no call is made
\* for an action the loop has not reached, and every action whose pass ended
\* without raising was executed exactly once.
C1_InOrder ==
    InRun =>
        /\ \A p, q \in 1..Len(calls) : p < q => calls[p].act <= calls[q].act
        /\ \A p \in 1..Len(calls) : calls[p].act \in 1..Len(actions) /\ calls[p].act <= idx
        /\ \A i \in 1..Len(actions) : Passed(i) => Cardinality(ExecCalls(i)) = 1

\* C1 happens: a list of two actions, create then start, has run to its end
C1_Witness ==
    /\ InRun /\ pc = "done" /\ Len(actions) = 2
    /\ actions[1].action = ACTION_CREATE /\ actions[2].action = ACTION_START
    /\ ExecCalls(1) # {} /\ ExecCalls(2) # {}

\* the stop and remove calls made to execute a stop or remove action
TeardownCalls == {p \in 1..Len(calls) : actions[calls[p].act].action \in ACTIONS_STOP \cup ACTIONS_REMOVE /\ p \in ExecCalls(calls[p].act)}
ErrorLogs(i) == {l \in 1..Len(logs) : logs[l].act = i /\ logs[l].level = "ERROR"}

\* C2: a stop or remove action the engine answers with 404 does not raise,
\* with either value of raise_on_error, pushes no error log, and the loop goes
\* on to the next action.
C2_NotFoundSwallowed ==
    InRun => \A p \in TeardownCalls : calls[p].res = "404" =>
        /\ ~RaisedAt(calls[p].act)
        /\ ErrorLogs(calls[p].act) = {}
        /\ Passed(calls[p].act)

\* C2 happens: a 404 on the first action under raise_on_error, and the second
\* action was executed after it
C2_Witness ==
    /\ InRun /\ raise_on_error /\ pc = "done" /\ Len(actions) = 2
    /\ \E p \in TeardownCalls : calls[p].res = "404" /\ calls[p].act = 1
    /\ ExecCalls(2) # {}

\* C3: a stop or remove action that fails with a status other than 404 is
\* logged once; with raise_on_error the run raises there and no later action
\* makes an engine call; without it the run does not raise there and the loop
\* goes on to the next action.
C3_TeardownError ==
    InRun => \A p \in TeardownCalls : (Failed(p) /\ calls[p].res # "404") =>
        /\ Cardinality(ErrorLogs(calls[p].act)) = 1
        /\ raise_on_error => (RaisedAt(calls[p].act) /\ err = "APIError" /\ \A q \in 1..Len(calls) : calls[q].act <= calls[p].act)
        /\ ~raise_on_error => (~RaisedAt(calls[p].act) /\ Passed(calls[p].act))

\* C3 happens without raise_on_error: the first action failed with 500, the
\* second was executed
C3_Witness ==
    /\ InRun /\ ~raise_on_error /\ pc = "done" /\ Len(actions) = 2
    /\ \E p \in TeardownCalls : calls[p].res = "500" /\ calls[p].act = 1
    /\ ExecCalls(2) # {}

\* the calls made for a create, start or prepare action
BuildCalls == {p \in 1..Len(calls) : actions[calls[p].act].action \in ACTIONS_CREATE \cup ACTIONS_START \cup ACTIONS_PREPARE}
\* the removal of a helper container of the permission fixer
IsHelperRemoval(q) == calls[q].op = "remove_container" /\ calls[q].target[1] = "tmp" /\ \E r \in 1..(q - 1) : calls[r].op = "create_container" /\ calls[r].target = calls[q].target /\ calls[r].act = calls[q].act

\* C4: an engine error during a create, start or prepare action raises with
\* either value of raise_on_error; no later action makes a call, and the only
\* call that follows the failing one is the removal of the helper container
\* the same action created: nothing an earlier action did is undone.
C4_BuildErrorPropagates ==
    InRun => \A p \in BuildCalls : Failed(p) =>
        /\ RaisedAt(calls[p].act) /\ err = "APIError"
        /\ \A q \in 1..Len(calls) : calls[q].act <= calls[p].act
        /\ \A q \in (p + 1)..Len(calls) : IsHelperRemoval(q)

\* C4 happens: without raise_on_error, the first action was executed and the
\* create of the second raised
C4_Witness ==
    /\ InRun /\ ~raise_on_error /\ Len(actions) = 2 /\ RaisedAt(2)
    /\ actions[2].action = ACTION_CREATE
    /\ ExecCalls(1) # {} /\ ~Failed(CHOOSE p \in ExecCalls(1) : TRUE)
    /\ \E p \in BuildCalls : Failed(p) /\ calls[p].op = "create_container"

\* C9 (as claimed): after any pass of the run every action's stored kwargs are
\* the kwargs it was given.
C9_KwargsNeverMutated ==
    InRun => \A i \in 1..Len(actions) : actions[i].kwargs = op.actions[i].kwargs

\* an action the registry or the dispatch cannot take
UnknownMap(a) == a.map_name \notin MapNames
UnknownKind(a) == a.action \notin ACTIONS_CREATE \cup ACTIONS_START \cup ACTIONS_PREPARE \cup ACTIONS_STOP \cup ACTIONS_REMOVE
ConfigurationErrors == {"ValueError: No map found", "ValueError: Unrecognized action"}

\* C13: an action with an unknown map name or an unknown kind never passes:
\* when the loop reaches it the run raises, with either value of
\* raise_on_error, and no engine call is made for it or for a later action;
\* with an override map supplied the error is the ValueError of the registry
\* or of the dispatch.
C13_ConfigErrorFatal ==
    InRun => \A i \in 1..Len(actions) : (UnknownMap(actions[i]) \/ UnknownKind(actions[i])) =>
        /\ ~Passed(i)
        /\ pc # "done"
        /\ \A p \in 1..Len(calls) : calls[p].act < i
        /\ (RaisedAt(i) /\ UnknownMap(actions[i])) => err = "ValueError: No map found"
        /\ (RaisedAt(i) /\ ~UnknownMap(actions[i]) /\ apply_kwargs.given) => err = "ValueError: Unrecognized action"

\* C13 happens: without raise_on_error the first action was executed and the
\* second, of an unknown kind, raised the configuration error
C13_Witness ==
    /\ InRun /\ ~raise_on_error /\ Len(actions) = 2 /\ RaisedAt(2)
    /\ UnknownKind(actions[2]) /\ err \in ConfigurationErrors
    /\ ExecCalls(1) # {}

\* the create results of the create actions among the first i, in order
RECURSIVE CreatedUpTo(_)
CreatedUpTo(i) ==
    IF i = 0 THEN <<>>
    ELSE IF actions[i].action \in ACTIONS_CREATE THEN Append(CreatedUpTo(i - 1), CreateResult(actions[i].container))
    ELSE CreatedUpTo(i - 1)

C18_OverrideOptional ==
    (InRun /\ ~apply_kwargs.given) =>
        /\ err # "AttributeError"
        /\ \A i \in 1..Len(actions) : Passed(i) => \E p \in ExecCalls(i) : calls[p].op = "create_container" \/ calls[p].args = op.actions[i].kwargs

----------------------------------------------------------------------------
(* Properties of the permission fixer, as run_action_list calls it for a   *)
(* prepare action.                                                         *)

\* the helper containers that were created: the successful create_container
\* calls of _run_and_dispose
HelperCreates == {p \in 1..Len(calls) : calls[p].op = "create_container" /\ calls[p].target[1] = "tmp" /\ ~Failed(p)}
\* the remove_container calls on the helper created by call p
Removals(p) == {q \in (p + 1)..Len(calls) : calls[q].op = "remove_container" /\ calls[q].target = calls[p].target}

\* C11: every helper container that was created is removed by exactly one
\* remove_container call, which comes before any call on anything else (so
\* before adjust_permissions returns or raises); when a step between the
\* create and the removal failed, the run raises at that action after the
\* removal, which is then the last call made.
C11_HelperRemoved ==
    InRun => \A p \in HelperCreates :
        /\ Cardinality(Removals(p)) = 1
        /\ \A q \in Removals(p) :
              /\ \A r \in (p + 1)..(q - 1) : calls[r].target = calls[p].target /\ calls[r].act = calls[p].act
              /\ (\E r \in (p + 1)..(q - 1) : Failed(r)) => (RaisedAt(calls[p].act) /\ err = "APIError" /\ q = Len(calls))

\* C11 happens: the wait on a created helper failed, the helper was removed
\* and the run raised
C11_Witness ==
    /\ InRun /\ pc = "raised"
    /\ \E p \in HelperCreates : \E q \in Removals(p) :
          /\ ~Failed(q)
          /\ \E r \in (p + 1)..(q - 1) : Failed(r) /\ calls[r].op = "wait"

\* the calls made on helper containers for action i, in order
HelperCalls(i) == SelectSeq(calls, LAMBDA x : x.act = i /\ x.target # <<>> /\ x.target[1] = "tmp")
\* the engine calls of one helper run
RunOps == <<"create_container", "start", "wait", "push_container_logs", "remove_container">>
\* the commands adjust_permissions is to run for a user and permissions
Commands(user, permissions, path) ==
    (IF user # <<>> THEN <<(<<"chown", "-R">> \o get_user_group(user) \o path)>> ELSE <<>>)
    \o (IF permissions # <<>> THEN <<(<<"chmod", "-R">> \o permissions \o path)>> ELSE <<>>)
\* the kwargs the i-th action was given, merged with the override of its kind
GivenKwargs(i) == MergedKwargs(apply_kwargs, op.actions[i].action, op.actions[i].kwargs)

\* C12: a prepare action whose pass has ended without raising has made no
\* helper call when user and permissions are both unset, and otherwise one
\* helper run per value that is set, chown for the user before chmod for the
\* permissions; each run is create, start, wait, logs, remove on one helper,
\* so that the chown helper is removed before the chmod helper is created.
C12_ChownThenChmod ==
    InRun => \A i \in 1..Len(actions) : (Passed(i) /\ actions[i].action \in ACTIONS_PREPARE) =>
        LET H == HelperCalls(i)
            cmds == Commands(GivenKwargs(i).user, GivenKwargs(i).permissions, GivenKwargs(i).path)
        IN  /\ Len(H) = Len(RunOps) * Len(cmds)
            /\ \A k \in 1..Len(H) :
                  /\ H[k].op = RunOps[((k - 1) % Len(RunOps)) + 1]
                  /\ H[k].target = H[k - ((k - 1) % Len(RunOps))].target
            /\ \A n \in 1..Len(cmds) : H[(n - 1) * Len(RunOps) + 1].args.command = cmds[n]
            /\ Len(cmds) = 2 => H[1].target # H[Len(RunOps) + 1].target

\* C12 happens: a prepare action with user and permissions set has passed with
\* two helper runs
C12_Witness ==
    /\ InRun
    /\ \E i \in 1..Len(actions) :
          /\ Passed(i) /\ actions[i].action \in ACTIONS_PREPARE
          /\ GivenKwargs(i).user # <<>> /\ GivenKwargs(i).permissions # <<>>
          /\ Len(HelperCalls(i)) = 2 * Len(RunOps)

----------------------------------------------------------------------------
(* Properties of the image cache.                                          *)

Qualified(image) == Qualify(image)

\* the references the import_image calls of a call log name
ImportsIssued(log) == {JoinColon(log[p].image, log[p].args.tag) : p \in {q \in 1..Len(log) : log[q].op = "import_image"}}
\* how many import_image calls of a call log name the reference
ImportCount(log, ref) == Cardinality({p \in 1..Len(log) : log[p].op = "import_image" /\ JoinColon(log[p].image, log[p].args.tag) = ref})
QueryCalls(log) == {p \in 1..Len(log) : log[p].op = "get_image_tags"}
ForcedCalls(log) == {p \in QueryCalls(log) : log[p].force}
ImportCalls(log) == {p \in 1..Len(log) : log[p].op = "import_image"}

\* the cached tag set of a map as an operation that starts now finds it: the
\* entry, or with no entry the listing the first use fetches
CachedAtEntry(map_name) == IF map_name \in DOMAIN image_tags THEN image_tags[map_name] ELSE engine_tags[ClientOf(map_name)]

\* C5 (as claimed): a call of ensure_images that returns has invoked an import
\* for a requested reference if and only if the fully qualified reference is
\* absent from the cached tag set of the map.
C5_ImportIffAbsent ==
    [][(op'.name = "ensure_images" /\ err' = "") =>
          \A i \in 1..Len(op'.images) :
             (Qualified(op'.images[i]) \in ImportsIssued(calls')) <=> (Qualified(op'.images[i]) \notin CachedAtEntry(op'.map_name))]_vars

\* C6 (as claimed): of two calls of ensure_images in a row with the same map
\* and images, both returning, the second issues no import and no engine
\* query, and no image is imported more than once over both.
C6_EnsureIdempotent ==
    [][(op.name = "ensure_images" /\ op'.name = "ensure_images" /\ op'.map_name = op.map_name /\ op'.images = op.images /\ err = "" /\ err' = "") =>
          /\ ImportCalls(calls') = {}
          /\ QueryCalls(calls') = {}
          /\ \A i \in 1..Len(op.images) : ImportCount(calls \o calls', Qualified(op.images[i])) <= 1]_vars

\* C7: a call of ensure_images makes at most one forced refresh; none when no
\* import was made; exactly one when an import was made and the call returns;
\* and the forced refresh is the last engine call, after every import.
C7_OneForcedRefresh ==
    op.name = "ensure_images" =>
        /\ Cardinality(ForcedCalls(calls)) <= 1
        /\ ImportsOf(calls) = <<>> => ForcedCalls(calls) = {}
        /\ (err = "" /\ ImportsOf(calls) # <<>>) => Cardinality(ForcedCalls(calls)) = 1
        /\ \A p \in ForcedCalls(calls) : p = Len(calls) /\ \A q \in ImportCalls(calls) : q < p

\* C7 happens: a batch of two images, both imported, one forced refresh
C7_Witness ==
    /\ op.name = "ensure_images" /\ err = "" /\ Len(op.images) = 2
    /\ Len(ImportsOf(calls)) = 2
    /\ Cardinality(ForcedCalls(calls)) = 1

\* C8: get_image_tags queries the engine exactly when the map has no entry or
\* force is set, and a query that answers stores the listing as the entry of
\* that map, the other entries staying as they were; refresh_names leaves no
\* entry, so that the get_image_tags after it queries; and every entry is the
\* listing the latest query of its map's engine returned.
C8_CacheProtocol ==
    [][/\ op'.name = "get_image_tags" =>
             /\ (calls' # <<>>) <=> (op'.map_name \notin DOMAIN image_tags \/ op'.force)
             /\ Len(calls') <= 1
             /\ (calls' # <<>> /\ err' = "") => (op'.map_name \in DOMAIN image_tags' /\ image_tags'[op'.map_name] = engine_tags[ClientOf(op'.map_name)])
             /\ \A n \in MapNames \ {op'.map_name} : (n \in DOMAIN image_tags' <=> n \in DOMAIN image_tags) /\ (n \in DOMAIN image_tags => image_tags'[n] = image_tags[n])
             /\ calls' = <<>> => image_tags' = image_tags
       /\ op'.name = "refresh_names" => DOMAIN image_tags' = {}
       /\ (op.name = "refresh_names" /\ op'.name = "get_image_tags") => Len(calls') = 1
       /\ \A m \in DOMAIN image_tags' : image_tags'[m] = last_query'[ClientOf(m)]]_vars

\* C8 happens: a forced get_image_tags has replaced the entry of its map, which
\* now differs from the entry of the other map
C8_Witness ==
    /\ op.name = "get_image_tags" /\ op.force /\ err = "" /\ calls # <<>>
    /\ DOMAIN image_tags = MapNames
    /\ \E n \in MapNames \ {op.map_name} : image_tags[n] # image_tags[op.map_name]

----------------------------------------------------------------------------
(* Properties of the facade.                                               *)

\* the operations that take a map name
MapOperations == {ACTION_CREATE, ACTION_START, ACTION_STOP, ACTION_REMOVE, "wait", "wait_and_remove"}

\* the calls of the log other than the status listing of get_policy
OwnCalls == {p \in 1..Len(calls) : calls[p].op # "containers"}

\* C10 (as claimed): an operation called without a map name while a default
\* map is set does not fail with an unknown-map error, and every engine call
\* of it goes to the default map's client and names its container with the
\* default map's name.
C10_DefaultMapUsed ==
    (op.name \in MapOperations /\ pc \in {"done", "raised"} /\ op.map_name = None /\ op.default \in MapNames) =>
        /\ err \notin {"ValueError: No map found", "KeyError"}
        /\ \A p \in OwnCalls :
              /\ calls[p].client = ClientOf(op.default)
              /\ calls[p].target # <<>> => StartsWith(calls[p].target, <<op.default, ".">>)

\* the container names a listing reports, the leading character stripped
ListedNames(listing) == {Tail(listing[t[1]][t[2]].Names[t[3]]) : t \in {u \in Clients \X (1..(MaxListed + 1)) \X (1..2) : u[2] <= Len(listing[u[1]]) /\ u[3] <= Len(listing[u[1]][u[2]].Names)}}
\* the status strings a listing reports for a name
ListedStatus(listing, name) == {listing[t[1]][t[2]].Status : t \in {u \in Clients \X (1..(MaxListed + 1)) : u[2] <= Len(listing[u[1]]) /\ \E j \in 1..Len(listing[u[1]][u[2]].Names) : Tail(listing[u[1]][u[2]].Names[j]) = name}}
\* a step in which get_policy() is called and returns or raises
GetPolicyStep == op'.name = "get_policy" \/ (pc = "policy" /\ pc' # "policy")
\* the status extractor of that step made its query of every client
Extracted(log) == Len(log) >= Len(MapOrder) /\ \A k \in 1..Len(MapOrder) : log[k].op = "containers" /\ log[k].res = "ok"

\* C14: in every call of get_policy (by itself or by create, start, stop or
\* remove) the policy exists afterwards and is never constructed a second
\* time, the status extractor queries the engines whether or not the policy
\* existed, and when it returns the policy's status is exactly the mapping of
\* this extraction: its names are the names now listed, with their status now
\* listed, no entry of an earlier extraction being kept.
C14_PolicyOnceStatusFresh ==
    [][GetPolicyStep =>
          /\ policy_built' = 1
          /\ policy_built <= 1
          /\ calls' # <<>> /\ calls'[1].op = "containers"
          /\ Extracted(calls') =>
                /\ DOMAIN policy_status' = ListedNames(op'.listing)
                /\ \A n \in DOMAIN policy_status' : \E st \in ListedStatus(op'.listing, n) : policy_status'[n] = Classify(st)]_vars

\* C14 happens: the policy exists, and an operation's get_policy has set a
\* status with one name while the engines list one container under one name
C14_Witness ==
    /\ op.name \in {ACTION_CREATE, ACTION_START, ACTION_STOP, ACTION_REMOVE}
    /\ pc = "done" /\ policy_built = 1
    /\ op.listing \in ListingArgs
    /\ Cardinality(ListedNames(op.listing)) = 1
    /\ DOMAIN policy_status = ListedNames(op.listing)

----------------------------------------------------------------------------
(* Properties of the status extractor.                                     *)

\* the string is 'Exited (' followed by k digits and ')'
ExitedWith(str, k) ==
    /\ k >= 1 /\ Len(str) >= Len(ExitedPrefix) + k + 1
    /\ SubSeq(str, 1, Len(ExitedPrefix)) = ExitedPrefix
    /\ \A j \in 1..k : str[Len(ExitedPrefix) + j] \in {Digits[d] : d \in 1..Len(Digits)}
    /\ str[Len(ExitedPrefix) + k + 1] = ")"
\* the decimal value of the digits from position from to position to
RECURSIVE Decimal(_, _, _, _)
Decimal(str, from, to, acc) == IF from > to THEN acc ELSE Decimal(str, from + 1, to, 10 * acc + DigitValue(str[from]))
\* the status value the classification rules give a status string
Expected(str) ==
    IF str = <<>> THEN StatusFalse
    ELSE IF Len(str) >= 2 /\ str[1] = "U" /\ str[2] = "p" THEN StatusTrue
    ELSE IF \E k \in 1..Len(str) : ExitedWith(str, k)
         THEN StatusInt(Decimal(str, Len(ExitedPrefix) + 1, Len(ExitedPrefix) + (CHOOSE k \in 1..Len(str) : ExitedWith(str, k)), 0))
    ELSE StatusNone
\* where a name is listed: <<position of the map, position of the container>>
Occurrences(listing, name) == {t \in (1..Len(MapOrder)) \X (1..(MaxListed + 1)) : t[2] <= Len(listing[ClientOf(MapOrder[t[1]])]) /\ \E j \in 1..Len(listing[ClientOf(MapOrder[t[1]])][t[2]].Names) : Tail(listing[ClientOf(MapOrder[t[1]])][t[2]].Names[j]) = name}
\* the last of them in the order of the queries and of their results
LastOccurrence(listing, name) == CHOOSE t \in Occurrences(listing, name) : \A u \in Occurrences(listing, name) : u[1] < t[1] \/ (u[1] = t[1] /\ u[2] <= t[2])
LastStatus(listing, name) == listing[ClientOf(MapOrder[LastOccurrence(listing, name)[1]])][LastOccurrence(listing, name)[2]].Status

\* C15: the extracted mapping has exactly the listed names with the leading
\* character stripped, and each name has the classification of the status
\* string of its last occurrence: '' is False, a string starting with 'Up' is
\* True, 'Exited (<n>)...' with decimal digits n is the integer n, anything
\* else is None; 'Exited (137)...' gives 137 and 'Exited (0)' gives 0.
C15_StatusClassified ==
    (op.name = "get_policy" /\ err = "") =>
        /\ DOMAIN policy_status = ListedNames(op.listing)
        /\ \A n \in DOMAIN policy_status : policy_status[n] = Expected(LastStatus(op.listing, n))
        /\ \A n \in DOMAIN policy_status :
              /\ LastStatus(op.listing, n) = StatusExited => policy_status[n] = StatusInt(137)
              /\ LastStatus(op.listing, n) = ExitedPrefix \o <<"0", ")">> => policy_status[n] = StatusInt(0)

\* C15 happens: a name listed twice, first as exited with 137 and last as
\* 'Up', is running, and another name listed with 'Exited (0)' has 0
C15_Witness ==
    /\ op.name = "get_policy" /\ err = ""
    /\ \E n \in DOMAIN policy_status :
          /\ Cardinality(Occurrences(op.listing, n)) = 2
          /\ StatusExited \in ListedStatus(op.listing, n)
          /\ LastStatus(op.listing, n) = <<"U", "p">>
          /\ policy_status[n] = StatusTrue
    /\ \E n \in DOMAIN policy_status : policy_status[n] = StatusInt(0)

----------------------------------------------------------------------------
(* Properties of list_persistent_containers.                               *)

\* the maps a call selects
Selected(map_name) == IF map_name = None THEN MapNames ELSE {map_name}
\* the places a name is to come from: <<map, position of the container,
\* "attached" or "instance", position of the alias or instance>>; a
\* persistent container without instances has its one default instance
NameSlots(container_maps, map_name) ==
    {t \in Selected(map_name) \X (1..2) \X {"attached", "instance"} \X (1..2) :
        /\ t[2] <= Len(container_maps[t[1]])
        /\ LET config == container_maps[t[1]][t[2]].config
           IN  IF t[3] = "attached" THEN t[4] <= Len(config.attaches)
               ELSE config.persistent /\ (t[4] <= Len(config.instances) \/ (config.instances = <<>> /\ t[4] = 1))}
\* the engine-facing name of a slot
SlotName(container_maps, t) ==
    LET entry == container_maps[t[1]][t[2]]
    IN  IF t[3] = "attached" THEN cname(t[1], entry.config.attaches[t[4]], None)
        ELSE IF entry.config.instances = <<>> THEN cname(t[1], entry.name, None)
        ELSE cname(t[1], entry.name, entry.config.instances[t[4]])

\* C17: the list returned holds one name per attached alias of every container
\* of the selected maps, persistent or not, and per declared instance (or the
\* one default instance) of every persistent container, and nothing else.
C17_PersistentNames ==
    (op.name = "list_persistent_containers" /\ err = "") =>
        /\ Len(results) = Cardinality(NameSlots(op.maps, op.map_name))
        /\ {results[k] : k \in 1..Len(results)} = {SlotName(op.maps, t) : t \in NameSlots(op.maps, op.map_name)}

\* C17 happens: a map with a container that has one attached alias and is not
\* persistent and a persistent container with two instances gives three names
C17_Witness ==
    /\ op.name = "list_persistent_containers" /\ err = "" /\ op.map_name = "m1"
    /\ Len(op.maps["m1"]) = 2
    /\ op.maps["m1"][1].config = [attaches |-> <<"v1">>, persistent |-> FALSE, instances |-> <<>>]
    /\ op.maps["m1"][2].config = [attaches |-> <<>>, persistent |-> TRUE, instances |-> <<"i1", "i2">>]
    /\ Len(results) = 3

----------------------------------------------------------------------------
(* Properties of the create and prepare actions.                           *)

\* the engine calls a step adds to the call log
NewCalls == SubSeq(calls', Len(calls) + 1, Len(calls'))
\* the step is the pass of run_action_list for an action of one of the kinds
StepOf(kinds) == InRun /\ pc = "running" /\ idx <= Len(actions) /\ actions[idx].action \in kinds /\ apply_kwargs.given /\ actions[idx].map_name \in MapNames
\* the override of the kind of the action the step is for
OverrideOf(a) == IF a.action \in DOMAIN apply_kwargs.kw THEN apply_kwargs.kw[a.action] ELSE EmptyDict
\* the value a key has for the action: the override's if it has the key
ValueOf(a, key) == IF key \in DOMAIN OverrideOf(a) THEN OverrideOf(a)[key] ELSE a.kwargs[key]
\* the kwargs left for create_container: every key but image
RestOf(a) == [k \in ((DOMAIN a.kwargs) \cup (DOMAIN OverrideOf(a))) \ {"image"} |-> ValueOf(a, k)]
CreateCalls(log) == {p \in 1..Len(log) : log[p].op = "create_container"}

\* C19: in the pass for a create action, create_container is called with the
\* image of the merged kwargs (the override's image if it has one) and the
\* merged kwargs without image, as the last call and after calls that all
\* succeeded; by then the cached tags of the action's map have been looked up
\* and, the image being absent from them, the image has been imported and the
\* tags queried again with force; a pass that does not raise makes the call
\* once, and a pass whose import raises makes no create_container call.
C19_EnsureBeforeCreate ==
    [][StepOf(ACTIONS_CREATE) =>
          LET a == actions[idx]
              image == ValueOf(a, "image")
              new == NewCalls
          IN  /\ \A p \in CreateCalls(new) :
                    /\ p = Len(new)
                    /\ new[p].image = image /\ new[p].args = RestOf(a)
                    /\ new[p].target = a.container /\ new[p].client = ClientOf(a.map_name)
                    /\ \A q \in 1..(p - 1) : new[q].res = "ok" /\ new[q].client = ClientOf(a.map_name)
                    /\ a.map_name \in DOMAIN image_tags \/ \E q \in 1..(p - 1) : new[q].op = "get_image_tags"
                    /\ Qualified(image) \notin CachedAtEntry(a.map_name) =>
                          \E q \in 1..(p - 1), r \in 1..(p - 1) :
                             /\ q < r
                             /\ new[q].op = "import_image" /\ JoinColon(new[q].image, new[q].args.tag) = Qualified(image)
                             /\ new[r].op = "get_image_tags" /\ new[r].force
              /\ pc' # "raised" => Cardinality(CreateCalls(new)) = 1
              /\ (\E q \in 1..Len(new) : new[q].op = "import_image" /\ new[q].res # "ok") => (CreateCalls(new) = {} /\ pc' = "raised")]_vars

\* C19 happens: a create action whose override names another image has passed;
\* that image was imported, the tags were queried again and the container was
\* created from it
C19_Witness ==
    /\ InRun /\ apply_kwargs.given /\ idx > 1 /\ actions[1].action = ACTION_CREATE
    /\ "image" \in DOMAIN OverrideOf(actions[1])
    /\ \E q, r, p \in 1..Len(calls) :
          /\ q < r /\ r < p
          /\ calls[q].op = "import_image" /\ calls[q].act = 1
          /\ calls[r].op = "get_image_tags" /\ calls[r].force
          /\ calls[p].op = "create_container" /\ calls[p].act = 1 /\ calls[p].image = OverrideOf(actions[1]).image /\ calls[p].res = "ok"

\* the wait on the target container of prepare action i
TargetWaits(i) == {p \in ExecCalls(i) : calls[p].target = actions[i].container}

\* C20: for a prepare action the loop has taken up, the one wait on the target
\* container precedes every call on a helper container, and those calls are
\* made only after the wait returned; when the wait returned and a user or
\* permissions are given, a helper container is created, whatever exit code
\* the wait reported; when the wait raised, the run raises there and no helper
\* call is made.
C20_WaitThenFix ==
    InRun => \A i \in 1..Len(actions) : (actions[i].action \in ACTIONS_PREPARE /\ (Passed(i) \/ RaisedAt(i)) /\ apply_kwargs.given) =>
        /\ Cardinality(TargetWaits(i)) = 1
        /\ \A w \in TargetWaits(i) :
              /\ HelperCalls(i) # <<>> => calls[w].res = "ok"
              /\ \A p \in 1..Len(calls) : (calls[p].act = i /\ p # w) => (w < p /\ calls[p].target[1] = "tmp")
              /\ (calls[w].res = "ok" /\ (GivenKwargs(i).user # <<>> \/ GivenKwargs(i).permissions # <<>>)) =>
                    (w < Len(calls) /\ calls[w + 1].op = "create_container" /\ calls[w + 1].act = i /\ calls[w + 1].target[1] = "tmp")
              /\ calls[w].res # "ok" => (RaisedAt(i) /\ HelperCalls(i) = <<>>)

\* C20 happens: the wait of a prepare action reported exit code 1 and the
\* permission step ran to its end
C20_Witness ==
    /\ InRun
    /\ \E i \in 1..Len(actions) :
          /\ actions[i].action \in ACTIONS_PREPARE /\ Passed(i)
          /\ \E w \in TargetWaits(i) : calls[w].out = "1"
          /\ Len(HelperCalls(i)) >= Len(RunOps)

============================================================================
